---- MODULE Spec2Model ----
(***************************************************************************)
(* A model of qa-kit's run (src/src/index.ts): configuration merge,        *)
(* snippet loading, git diff extraction with ignore globs, the ranking and *)
(* adjudication calls to the oracle, verdict aggregation and the exit code.*)
(*                                                                         *)
(* Text is modelled as tuples: a path or a glob is a tuple of one-character*)
(* strings, a diff is a tuple of lines, an oracle reply is a tuple of      *)
(* tokens.                                                                 *)
(***************************************************************************)
EXTENDS Integers, Sequences, FiniteSets, TLC

VARIABLES
    pc,            \* position of main(): loadConfig, loadSnippets, getGitDiffs,
                   \* forDiff, forMatch, output, done
    apiKey,        \* process.env.OPENAI_API_KEY is set
    config,        \* const config (QAConfig)
    snippets,      \* const snippets (Snippet[])
    extracted,     \* history: what getGitDiffs returned, never mutated
    diffs,         \* const diffs (DiffInfo[]); diff.diff is mutated by truncation
    di,            \* index of the current diff in diffsToProcess
    matches,       \* const matches of the current diff
    mi,            \* index of the current match in matches
    matchResults,  \* const matchResults of the current diff
    overallStatus, \* let overallStatus of the current diff
    analyses,      \* history: what analyzeMatch returned for the current diff
    results,       \* const results (QAResult[])
    calls,         \* history: the oracle requests sent (fetch calls)
    summary,       \* the printed summary counts, or NoSummary
    exitCode,      \* the process exit code, or Running
    worktree,      \* history: the working tree getGitDiffs read
    lastReply      \* history: the oracle's reply to the last request

vars == <<pc, apiKey, config, snippets, extracted, diffs, di, matches, mi,
          matchResults, overallStatus, analyses, results, calls, summary, exitCode,
          worktree, lastReply>>

Min(a, b) == IF a < b THEN a ELSE b
Max(a, b) == IF a > b THEN a ELSE b

\* Array.prototype.slice(0, end): a negative end counts from the end.
Slice(s, end) ==
    SubSeq(s, 1, IF end < 0 THEN Max(Len(s) + end, 0) ELSE Min(end, Len(s)))

(***************************************************************************)
(* Paths and ignore patterns                                               *)
(***************************************************************************)
QaJson       == <<"q","a",".","j","s","o","n">>
QualityGlob  == <<"q","u","a","l","i","t","y","/","*","*">>
QualityFooTs == <<"q","u","a","l","i","t","y","/","f","o","o",".","t","s">>
QualityABTs  == <<"q","u","a","l","i","t","y","/","a","/","b",".","t","s">>
SrcQualityTs == <<"s","r","c","/","q","u","a","l","i","t","y",".","t","s">>
SrcGlob      == <<"s","r","c","/","*",".","t","s">>

\* pattern.replace(/\./g, "\\."): every dot becomes the escaped dot
ReplaceDots(p) == [i \in 1..Len(p) |-> IF p[i] = "." THEN "\\." ELSE p[i]]

\* .replace(/\*\*/g, ".*"): left to right, non-overlapping; the replacement
\* is the two characters "." and "*"
RECURSIVE ReplaceStarStar(_)
ReplaceStarStar(p) ==
    IF p = <<>> THEN <<>>
    ELSE IF Len(p) >= 2 /\ p[1] = "*" /\ p[2] = "*"
         THEN <<".", "*">> \o ReplaceStarStar(SubSeq(p, 3, Len(p)))
         ELSE <<p[1]>> \o ReplaceStarStar(Tail(p))

\* .replace(/\*/g, "[^/]*"): every star left in the string, those written by
\* the previous replacement included
ReplaceStars(p) == [i \in 1..Len(p) |-> IF p[i] = "*" THEN "[^/]*" ELSE p[i]]

\* const regexPattern = pattern.replace(..).replace(..).replace(..)
RegexPattern(pattern) == ReplaceStars(ReplaceStarStar(ReplaceDots(pattern)))

\* new RegExp(`^${regexPattern}$`).test(filePath), for the regex atoms the
\* conversion produces: "[^/]*", "." (any character), "\\." and literals
RECURSIVE RegexTest(_, _)
RegexTest(re, path) ==
    IF re = <<>> THEN path = <<>>
    ELSE IF re[1] = "[^/]*"
         THEN \/ RegexTest(Tail(re), path)
              \/ /\ path # <<>>
                 /\ path[1] # "/"
                 /\ RegexTest(re, Tail(path))
    ELSE IF path = <<>> THEN FALSE
    ELSE IF re[1] = "." THEN RegexTest(Tail(re), Tail(path))
    ELSE IF re[1] = "\\." THEN path[1] = "." /\ RegexTest(Tail(re), Tail(path))
    ELSE path[1] = re[1] /\ RegexTest(Tail(re), Tail(path))

\* const shouldIgnore = ignorePatterns.some((pattern) => ...)
ShouldIgnore(ignorePatterns, filePath) ==
    \E i \in 1..Len(ignorePatterns) :
        RegexTest(RegexPattern(ignorePatterns[i]), filePath)

(***************************************************************************)
(* Configuration                                                           *)
(***************************************************************************)
DefaultContextLines      == 50
DefaultMaxDiffLines      == 500
DefaultMaxSnippetMatches == 3
DefaultMaxDiffsPerRun    == 3

defaultQAConfig ==
    [contextLines      |-> DefaultContextLines,
     maxDiffLines      |-> DefaultMaxDiffLines,
     maxSnippetMatches |-> DefaultMaxSnippetMatches,
     maxDiffsPerRun    |-> DefaultMaxDiffsPerRun,
     ignoreFiles       |-> <<QualityGlob, QaJson>>]

ConfigKeys ==
    {"contextLines", "maxDiffLines", "maxSnippetMatches", "maxDiffsPerRun",
     "ignoreFiles"}

\* qa.json: missing or unparseable (exists = FALSE), or an object that sets
\* the keys in `has`
NoQaJson == [exists |-> FALSE, has |-> {}, value |-> defaultQAConfig]

\* { ...defaultQAConfig, ...userConfig }
Merge(userConfig) ==
    [k \in ConfigKeys |->
        IF k \in userConfig.has THEN userConfig.value[k] ELSE defaultQAConfig[k]]

\* loadConfig(): the catch branch returns the defaults
LoadConfigResult(qaJson) ==
    IF qaJson.exists THEN Merge(qaJson) ELSE defaultQAConfig

(***************************************************************************)
(* Snippets                                                                *)
(***************************************************************************)
\* The quality directory: missing, or a listing of entries of which only the
\* regular files are snippets. A snippet's content is a token for the file's
\* text.
RECURSIVE ReadSnippets(_)
ReadSnippets(files) ==
    IF files = <<>> THEN <<>>
    ELSE (IF files[1].isFile
          THEN <<[name |-> files[1].name, content |-> <<"content of", files[1].name>>]>>
          ELSE <<>>) \o ReadSnippets(Tail(files))

\* loadSnippets()
LoadSnippetsResult(qualityDir) ==
    IF qualityDir.exists THEN ReadSnippets(qualityDir.files) ELSE <<>>

(***************************************************************************)
(* Diffs                                                                   *)
(***************************************************************************)
\* A diff text is a tuple of lines; a line is [kind, n].
Line(kind, n) == [kind |-> kind, n |-> n]
EmptyLine == Line("", 0)
TruncationMarker == Line("... (truncated)", 0)

\* "diff --git" + section: the header line and the section's other lines
TrackedDiff(n) ==
    [i \in 1..n |-> IF i = 1 THEN Line("diff --git", 1) ELSE Line("hunk", i)]

\* `diff --git a/.. b/..\nnew file\n--- /dev/null\n+++ b/..\n${lines}` with
\* lines = content.split("\n").map(line => `+${line}`).join("\n")
UntrackedDiff(contentLines) ==
    <<Line("diff --git", 1), Line("new file", 2), Line("--- /dev/null", 3),
      Line("+++ b/", 4)>> \o [i \in 1..contentLines |-> Line("+", i)]

\* for (const section of diffSections): the ignore test and diffs.push
RECURSIVE TrackedDiffs(_, _)
TrackedDiffs(sections, ignorePatterns) ==
    IF sections = <<>> THEN <<>>
    ELSE (IF ~ShouldIgnore(ignorePatterns, sections[1].path)
          THEN <<[file |-> sections[1].path, diff |-> TrackedDiff(sections[1].lines)]>>
          ELSE <<>>) \o TrackedDiffs(Tail(sections), ignorePatterns)

\* for (const filePath of untrackedFiles): the ignore test, readFile (an
\* unreadable file is skipped with a warning) and diffs.push
RECURSIVE UntrackedDiffs(_, _)
UntrackedDiffs(files, ignorePatterns) ==
    IF files = <<>> THEN <<>>
    ELSE (IF ~ShouldIgnore(ignorePatterns, files[1].path) /\ files[1].readable
          THEN <<[file |-> files[1].path, diff |-> UntrackedDiff(files[1].lines)]>>
          ELSE <<>>) \o UntrackedDiffs(Tail(files), ignorePatterns)

\* getGitDiffs(contextLines, ignorePatterns) on a working tree: a failing git
\* command and an empty status both give []
GetGitDiffsResult(git, ignorePatterns) ==
    IF git.fails \/ (git.tracked = <<>> /\ git.untracked = <<>>) THEN <<>>
    ELSE TrackedDiffs(git.tracked, ignorePatterns)
            \o UntrackedDiffs(git.untracked, ignorePatterns)

\* diffContent.split("\n") ... slice(0, maxDiffLines).join("\n") + "\n... (truncated)"
\* (joining no lines gives the empty string, which is one empty line)
Truncate(diffLines, maxDiffLines) ==
    IF Len(diffLines) > maxDiffLines
    THEN (IF Slice(diffLines, maxDiffLines) = <<>> THEN <<EmptyLine>>
          ELSE Slice(diffLines, maxDiffLines)) \o <<TruncationMarker>>
    ELSE diffLines

(***************************************************************************)
(* Oracle replies                                                          *)
(***************************************************************************)
\* A reply is a failed exchange (fetch rejects, the body is no JSON, or
\* data.choices[0].message.content is missing: all thrown inside the try), or
\* the content as a tuple of tokens: brackets, braces, prose, and JSON values
\* (an entry object, null, the fields of a verdict object).
Tok(t) ==
    [t |-> t, snippetName |-> "", hasScore |-> FALSE, relevanceScore |-> 0,
     commentary |-> "", status |-> ""]
LBracket == Tok("[")
RBracket == Tok("]")
LBrace   == Tok("{")
RBrace   == Tok("}")
Prose    == Tok("text")
JsonNull == Tok("null")
Entry(name, score) ==
    [Tok("entry") EXCEPT !.snippetName = name, !.hasScore = TRUE,
                          !.relevanceScore = score]
EntryNoScore(name) == [Tok("entry") EXCEPT !.snippetName = name]
Fields(commentary, status) ==
    [Tok("fields") EXCEPT !.commentary = commentary, !.status = status]

Failed == [ok |-> FALSE, content |-> <<>>]
Reply(content) == [ok |-> TRUE, content |-> content]

Positions(content, t) == {i \in 1..Len(content) : content[i].t = t}
SetMin(S) == CHOOSE x \in S : \A y \in S : x <= y
SetMax(S) == CHOOSE x \in S : \A y \in S : x >= y

\* content.match(/\[[\s\S]*\]/) and content.match(/\{[\s\S]*\}/): from the
\* first opening token to the last closing token after it; <<>> for null
RegexSpan(content, open, close) ==
    IF Positions(content, open) = {} THEN <<>>
    ELSE LET first == SetMin(Positions(content, open))
             after == {j \in Positions(content, close) : j > first}
         IN  IF after = {} THEN <<>> ELSE SubSeq(content, first, SetMax(after))

\* nesting depth after each token of an array literal
RECURSIVE Depth(_, _)
Depth(toks, i) ==
    IF i = 0 THEN 0
    ELSE Depth(toks, i - 1)
            + (IF toks[i].t = "[" THEN 1 ELSE IF toks[i].t = "]" THEN -1 ELSE 0)

\* JSON.parse accepts the span as an array: brackets balance, close only at
\* the end, and everything inside is a JSON value
IsJsonArray(toks) ==
    /\ toks # <<>>
    /\ \A i \in 1..Len(toks) : toks[i].t \in {"[", "]", "entry", "null"}
    /\ \A i \in 1..(Len(toks) - 1) : Depth(toks, i) > 0
    /\ Depth(toks, Len(toks)) = 0

\* the parsed array's elements: the values at depth 1, an inner array as one
\* element
RECURSIVE ArrayElements(_, _)
ArrayElements(toks, i) ==
    IF i > Len(toks) THEN <<>>
    ELSE (IF Depth(toks, i - 1) = 1 /\ toks[i].t \in {"entry", "null"} THEN <<toks[i]>>
          ELSE IF Depth(toks, i - 1) = 1 /\ toks[i].t = "[" THEN <<Tok("array")>>
          ELSE <<>>) \o ArrayElements(toks, i + 1)

\* matchSnippetsToDiff's try block once the request is sent: [] when the
\* exchange or JSON.parse throws or nothing matches, else JSON.parse's value
RankResult(reply) ==
    IF ~reply.ok THEN <<>>
    ELSE LET jsonMatch == RegexSpan(reply.content, "[", "]")
         IN  IF jsonMatch = <<>> THEN <<>>
             ELSE IF ~IsJsonArray(jsonMatch) THEN <<>>
             ELSE ArrayElements(jsonMatch, 1)

\* JSON.parse accepts the span as an object: {} or { fields }
IsJsonObject(toks) ==
    \/ Len(toks) = 2 /\ toks[1].t = "{" /\ toks[2].t = "}"
    \/ Len(toks) = 3 /\ toks[1].t = "{" /\ toks[2].t = "fields" /\ toks[3].t = "}"

UnableToParse   == "Unable to parse analysis"
ErrorDuring     == "Error during analysis: ..."
Undefined       == "undefined"

\* an adjudicator that accepts when the reply holds no object
AnalysisResultFailOpen(reply) ==
    IF ~reply.ok THEN [commentary |-> ErrorDuring, status |-> "warning"]
    ELSE IF RegexSpan(reply.content, "{", "}") = <<>>
         THEN [commentary |-> UnableToParse, status |-> "accepted"]
         ELSE IF ~IsJsonObject(RegexSpan(reply.content, "{", "}"))
         THEN [commentary |-> ErrorDuring, status |-> "warning"]
         ELSE IF Len(RegexSpan(reply.content, "{", "}")) = 2
         THEN [commentary |-> Undefined, status |-> Undefined]
         ELSE [commentary |-> RegexSpan(reply.content, "{", "}")[2].commentary,
               status |-> RegexSpan(reply.content, "{", "}")[2].status]

\* analyzeMatch's try block once the request is sent
AnalysisResult(reply) ==
    IF ~reply.ok THEN [commentary |-> ErrorDuring, status |-> "warning"]
    ELSE LET jsonMatch == RegexSpan(reply.content, "{", "}")
         IN  IF jsonMatch = <<>>
             THEN [commentary |-> UnableToParse, status |-> "warning"]
             ELSE IF ~IsJsonObject(jsonMatch)
             THEN [commentary |-> ErrorDuring, status |-> "warning"]
             ELSE IF Len(jsonMatch) = 2
             THEN [commentary |-> Undefined, status |-> Undefined]
             ELSE [commentary |-> jsonMatch[2].commentary,
                   status |-> jsonMatch[2].status]

(***************************************************************************)
(* main()                                                                  *)
(***************************************************************************)
RelevanceThreshold == 80

Running   == 0 - 1
\* before getGitDiffs has run: no working tree read
NoTree == [fails |-> TRUE, tracked |-> <<>>, untracked |-> <<>>]
NoSummary == [printed |-> FALSE, total |-> 0, accepted |-> 0, warning |-> 0, rejected |-> 0]

\* const diffsToProcess = diffs.slice(0, config.maxDiffsPerRun): a new array
\* of the same diff objects
DiffsToProcess == Slice(diffs, config.maxDiffsPerRun)

\* snippets.find((s) => s.name === match.snippetName): the index, 0 for undefined
Find(name) ==
    IF \E i \in 1..Len(snippets) : snippets[i].name = name
    THEN SetMin({i \in 1..Len(snippets) : snippets[i].name = name})
    ELSE 0

\* match.snippetName of a parsed element (undefined on an inner array or an
\* object without the key)
SnippetNameOf(match) == IF match.t = "entry" THEN match.snippetName ELSE ""

\* match.relevanceScore < 80 (undefined < 80 is false)
LowRelevance(match) == match.hasScore /\ match.relevanceScore < RelevanceThreshold

\* a fold in which a later warning overrides an earlier rejection
UpdateStatusNoGuard(overall, status) ==
    IF status = "rejected" THEN "rejected"
    ELSE IF status = "warning" THEN "warning"
    ELSE overall

\* the update of overallStatus (rejected > warning > accepted)
UpdateStatus(overall, status) ==
    IF status = "rejected" THEN "rejected"
    ELSE IF status = "warning" /\ overall # "rejected" THEN "warning"
    ELSE overall

Count(status) == Cardinality({i \in 1..Len(results) : results[i].status = status})

\* a tally that exits on warnings instead of rejections
RejectedCountOfWarnings == Count("warning")

\* the else branch of the tally counts every status that is neither accepted
\* nor warning
RejectedCount == Len(results) - Count("accepted") - Count("warning")

\* main().catch: console.error, process.exit(1)
Abort ==
    /\ pc' = "done"
    /\ exitCode' = 1

Init ==
    /\ pc = "loadConfig"
    /\ apiKey \in BOOLEAN
    /\ config = defaultQAConfig
    /\ snippets = <<>>
    /\ extracted = <<>>
    /\ diffs = <<>>
    /\ di = 0
    /\ matches = <<>>
    /\ mi = 0
    /\ matchResults = <<>>
    /\ overallStatus = "accepted"
    /\ analyses = <<>>
    /\ results = <<>>
    /\ calls = <<>>
    /\ summary = NoSummary
    /\ exitCode = Running
    /\ worktree = NoTree
    /\ lastReply = Failed

\* const config = await loadConfig()
LoadConfig(qaJson) ==
    /\ pc = "loadConfig"
    /\ config' = LoadConfigResult(qaJson)
    /\ pc' = "loadSnippets"
    /\ UNCHANGED <<worktree, lastReply, apiKey, snippets, extracted, diffs, di, matches, mi, matchResults,
                   overallStatus, analyses, results, calls, summary, exitCode>>

\* loadSnippets() without the return on an empty corpus
LoadSnippetsNoReturn(qualityDir) ==
    /\ pc = "loadSnippets"
    /\ snippets' = LoadSnippetsResult(qualityDir)
    /\ pc' = "getGitDiffs"
    /\ UNCHANGED <<worktree, lastReply, apiKey, config, extracted, diffs, di, matches, mi, matchResults,
                   overallStatus, analyses, results, calls, summary, exitCode>>

\* const snippets = await loadSnippets(); return when there is none
LoadSnippets(qualityDir) ==
    /\ pc = "loadSnippets"
    /\ snippets' = LoadSnippetsResult(qualityDir)
    /\ IF Len(snippets') = 0
       THEN pc' = "done" /\ exitCode' = 0
       ELSE pc' = "getGitDiffs" /\ UNCHANGED exitCode
    /\ UNCHANGED <<worktree, lastReply, apiKey, config, extracted, diffs, di, matches, mi, matchResults,
                   overallStatus, analyses, results, calls, summary>>

\* const diffs = await getGitDiffs(..); return when there is none; else
\* enter the loop over diffsToProcess
GetGitDiffs(git) ==
    /\ pc = "getGitDiffs"
    /\ diffs' = GetGitDiffsResult(git, config.ignoreFiles)
    /\ extracted' = diffs'
    /\ worktree' = git
    /\ IF Len(diffs') = 0
       THEN pc' = "done" /\ exitCode' = 0 /\ UNCHANGED di
       ELSE /\ pc' = IF Slice(diffs', config.maxDiffsPerRun) = <<>> THEN "output" ELSE "forDiff"
            /\ di' = 1
            /\ UNCHANGED exitCode
    /\ UNCHANGED <<lastReply, apiKey, config, snippets, matches, mi, matchResults,
                   overallStatus, analyses, results, calls, summary>>

\* the text diff.diff holds after the truncation step of the loop body
TruncatedDiff == Truncate(DiffsToProcess[di].diff, config.maxDiffLines)

\* matchSnippetsToDiff with the missing credential turned into an empty
\* ranking
RankThrowsSwallowed ==
    /\ pc = "forDiff"
    /\ ~apiKey
    /\ diffs' = [diffs EXCEPT ![di].diff = TruncatedDiff]
    /\ matches' = <<>>
    /\ mi' = 1
    /\ pc' = "forMatch"
    /\ UNCHANGED <<worktree, lastReply, apiKey, config, snippets, extracted, di, matchResults,
                   overallStatus, analyses, results, calls, summary, exitCode>>

\* loop body up to matchSnippetsToDiff without a credential: the diff is
\* truncated, the call throws, main() rejects
RankThrows ==
    /\ pc = "forDiff"
    /\ ~apiKey
    /\ diffs' = [diffs EXCEPT ![di].diff = TruncatedDiff]
    /\ Abort
    /\ UNCHANGED <<worktree, lastReply, apiKey, config, snippets, extracted, di, matches, mi, matchResults,
                   overallStatus, analyses, results, calls, summary>>

\* the ranking step with a retry: a failed exchange leaves the loop body at
\* the same diff, to rank it again
RankRetries(reply) ==
    /\ pc = "forDiff"
    /\ apiKey
    /\ diffs' = [diffs EXCEPT ![di].diff = TruncatedDiff]
    /\ calls' = Append(calls, [kind |-> "rank", di |-> di,
                               file |-> DiffsToProcess[di].file,
                               diff |-> TruncatedDiff,
                               maxMatches |-> config.maxSnippetMatches])
    /\ lastReply' = reply
    /\ matches' = RankResult(reply)
    /\ mi' = 1
    /\ matchResults' = <<>>
    /\ overallStatus' = "accepted"
    /\ analyses' = <<>>
    /\ pc' = IF reply.ok THEN "forMatch" ELSE "forDiff"
    /\ UNCHANGED <<worktree, apiKey, config, snippets, extracted, di, results, summary, exitCode>>

\* loop body up to the inner loop: truncation, the ranking request, its
\* reply parsed into matches
Rank(reply) ==
    /\ pc = "forDiff"
    /\ apiKey
    /\ diffs' = [diffs EXCEPT ![di].diff = TruncatedDiff]
    /\ calls' = Append(calls, [kind |-> "rank", di |-> di,
                               file |-> DiffsToProcess[di].file,
                               diff |-> TruncatedDiff,
                               maxMatches |-> config.maxSnippetMatches])
    /\ lastReply' = reply
    /\ matches' = RankResult(reply)
    /\ mi' = 1
    /\ matchResults' = <<>>
    /\ overallStatus' = "accepted"
    /\ analyses' = <<>>
    /\ pc' = "forMatch"
    /\ UNCHANGED <<worktree, apiKey, config, snippets, extracted, di, results, summary, exitCode>>

\* for (const match of matches): match is null, reading match.snippetName
\* throws a TypeError outside every try
MatchThrows ==
    /\ pc = "forMatch"
    /\ mi <= Len(matches)
    /\ matches[mi].t = "null"
    /\ Abort
    /\ UNCHANGED <<worktree, lastReply, apiKey, config, snippets, extracted, diffs, di, matches, mi,
                   matchResults, overallStatus, analyses, results, calls, summary>>

\* if (!snippet) continue
SkipUnknown ==
    /\ pc = "forMatch"
    /\ mi <= Len(matches)
    /\ matches[mi].t # "null"
    /\ Find(SnippetNameOf(matches[mi])) = 0
    /\ mi' = mi + 1
    /\ UNCHANGED <<worktree, lastReply, pc, apiKey, config, snippets, extracted, diffs, di, matches,
                   matchResults, overallStatus, analyses, results, calls, summary,
                   exitCode>>

\* if (match.relevanceScore < 80) continue
SkipLowRelevance ==
    /\ pc = "forMatch"
    /\ mi <= Len(matches)
    /\ matches[mi].t # "null"
    /\ Find(SnippetNameOf(matches[mi])) # 0
    /\ LowRelevance(matches[mi])
    /\ mi' = mi + 1
    /\ UNCHANGED <<worktree, lastReply, pc, apiKey, config, snippets, extracted, diffs, di, matches,
                   matchResults, overallStatus, analyses, results, calls, summary,
                   exitCode>>

\* const analysis = await analyzeMatch(diff, snippet); matchResults.push;
\* the update of overallStatus
AnalyzeMatch(reply) ==
    /\ pc = "forMatch"
    /\ mi <= Len(matches)
    /\ matches[mi].t # "null"
    /\ Find(SnippetNameOf(matches[mi])) # 0
    /\ ~LowRelevance(matches[mi])
    /\ LET snippet  == snippets[Find(SnippetNameOf(matches[mi]))]
           analysis == AnalysisResult(reply)
       IN  /\ calls' = Append(calls, [kind |-> "analyze", di |-> di,
                                      file |-> DiffsToProcess[di].file,
                                      diff |-> DiffsToProcess[di].diff,
                                      maxMatches |-> 0])
           /\ analyses' = Append(analyses, analysis)
           /\ matchResults' = Append(matchResults,
                                     [snippetName |-> snippet.name,
                                      commentary |-> analysis.commentary])
           /\ overallStatus' = UpdateStatus(overallStatus, analysis.status)
    /\ lastReply' = reply
    /\ mi' = mi + 1
    /\ UNCHANGED <<worktree, pc, apiKey, config, snippets, extracted, diffs, di, matches,
                   results, summary, exitCode>>

\* results.push with a warning for a diff that no snippet was matched to
PushResultWarnsUnmatched ==
    /\ pc = "forMatch"
    /\ mi > Len(matches)
    /\ results' = Append(results, [file |-> DiffsToProcess[di].file,
                                   status |-> IF matchResults = <<>> THEN "warning"
                                              ELSE overallStatus,
                                   matches |-> matchResults])
    /\ di' = di + 1
    /\ pc' = IF di + 1 > Len(DiffsToProcess) THEN "output" ELSE "forDiff"
    /\ matches' = <<>>
    /\ mi' = 0
    /\ matchResults' = <<>>
    /\ overallStatus' = "accepted"
    /\ analyses' = <<>>
    /\ UNCHANGED <<worktree, lastReply, apiKey, config, snippets, extracted, diffs, calls, summary, exitCode>>

\* results.push({file, status, matches}); the iteration's block-scoped
\* matches, matchResults and overallStatus end with it; next diff, or leave
\* the loop
PushResult ==
    /\ pc = "forMatch"
    /\ mi > Len(matches)
    /\ results' = Append(results, [file |-> DiffsToProcess[di].file,
                                   status |-> overallStatus,
                                   matches |-> matchResults])
    /\ di' = di + 1
    /\ pc' = IF di + 1 > Len(DiffsToProcess) THEN "output" ELSE "forDiff"
    /\ matches' = <<>>
    /\ mi' = 0
    /\ matchResults' = <<>>
    /\ overallStatus' = "accepted"
    /\ analyses' = <<>>
    /\ UNCHANGED <<worktree, lastReply, apiKey, config, snippets, extracted, diffs, calls, summary, exitCode>>

\* the results and the summary are printed; process.exit(1) on a rejection,
\* else main() returns
Output ==
    /\ pc = "output"
    /\ summary' = [printed |-> TRUE, total |-> Len(results),
                   accepted |-> Count("accepted"), warning |-> Count("warning"),
                   rejected |-> RejectedCount]
    /\ exitCode' = IF RejectedCount > 0 THEN 1 ELSE 0
    /\ pc' = "done"
    /\ UNCHANGED <<worktree, lastReply, apiKey, config, snippets, extracted, diffs, di, matches, mi,
                   matchResults, overallStatus, analyses, results, calls>>

(***************************************************************************)
(* Inputs                                                                  *)
(***************************************************************************)
MaxOverrideKeys  == 1
MaxTracked       == 1
MaxUntracked     == 1
MaxReplyEntries  == 2

SeqsUpTo(S, n) == UNION {[1..k -> S] : k \in 0..n}
NoRepeat(s, f(_)) == \A i, j \in 1..Len(s) : f(s[i]) = f(s[j]) => i = j

\* the qa.json files that set at most maxKeys keys, each to one of values[key]
UserConfigs(values, maxKeys) ==
    {u \in [exists : {TRUE},
            has    : {h \in SUBSET ConfigKeys : Cardinality(h) <= maxKeys},
            value  : [contextLines      : values.contextLines \cup {DefaultContextLines},
                      maxDiffLines      : values.maxDiffLines \cup {DefaultMaxDiffLines},
                      maxSnippetMatches : values.maxSnippetMatches \cup {DefaultMaxSnippetMatches},
                      maxDiffsPerRun    : values.maxDiffsPerRun \cup {DefaultMaxDiffsPerRun},
                      ignoreFiles       : values.ignoreFiles \cup {defaultQAConfig.ignoreFiles}]] :
        \A k \in ConfigKeys :
            IF k \in u.has THEN u.value[k] \in values[k]
            ELSE u.value[k] = defaultQAConfig[k]}

PathOf(x) == x.path

\* the working trees with at most maxT changed tracked files and maxU
\* untracked files over `paths`, no path twice; and the failing git command
GitStates(paths, trackedLines, contentLines, maxT, maxU) ==
    {g \in [fails     : BOOLEAN,
            tracked   : SeqsUpTo([path : paths, lines : trackedLines], maxT),
            untracked : SeqsUpTo([path : paths, readable : BOOLEAN, lines : contentLines], maxU)] :
        /\ NoRepeat(g.tracked \o [i \in 1..Len(g.untracked) |->
                        [path |-> g.untracked[i].path, lines |-> 0]], PathOf)
        /\ g.fails => (g.tracked = <<>> /\ g.untracked = <<>>)}

ArrayLiterals(elements, n) ==
    {<<LBracket>> \o es \o <<RBracket>> : es \in SeqsUpTo(elements, n)}

SrcATs == <<"s","r","c","/","a",".","t","s">>

NoOverrides ==
    [contextLines |-> {}, maxDiffLines |-> {}, maxSnippetMatches |-> {},
     maxDiffsPerRun |-> {}, ignoreFiles |-> {}]

\* the quality directory: missing, empty, or two snippets around a sub-directory
MissingDir == [exists |-> FALSE, files |-> <<>>]
Listing(files) == [exists |-> TRUE, files |-> files]
File(name) == [name |-> name, isFile |-> TRUE]
SubDir(name) == [name |-> name, isFile |-> FALSE]
QualityDirs ==
    {MissingDir, Listing(<<>>), Listing(<<SubDir("old")>>),
     Listing(<<File("a.ts"), SubDir("old"), File("b.ts")>>)}

Verdicts == {"accepted", "warning", "rejected"}

\* one step of the run over the given qa.json files, quality directories,
\* working trees and oracle replies
Run(qaJsons, qualityDirs, gitStates, rankReplies, analysisReplies) ==
    \/ \E qaJson \in qaJsons : LoadConfig(qaJson)
    \/ \E qualityDir \in qualityDirs : LoadSnippets(qualityDir)
    \/ \E git \in gitStates : GetGitDiffs(git)
    \/ RankThrows
    \/ \E reply \in rankReplies : Rank(reply)
    \/ MatchThrows
    \/ SkipUnknown
    \/ SkipLowRelevance
    \/ \E reply \in analysisReplies : AnalyzeMatch(reply)
    \/ PushResult
    \/ Output

(***************************************************************************)
(* Spec: the run under the defaults (or a lower match cap), over working   *)
(* trees of several changed files, against a few oracle replies of each    *)
(* kind.                                                                   *)
(***************************************************************************)
RunQaJsons ==
    {NoQaJson} \cup UserConfigs([NoOverrides EXCEPT !.maxSnippetMatches = {1}],
                                MaxOverrideKeys)
RunGitStates ==
    GitStates({SrcQualityTs, SrcATs, QualityFooTs}, {2}, {1}, MaxTracked, MaxUntracked)
RunRankReplies ==
    {Failed, Reply(<<Prose>>),
     Reply(<<LBracket, Entry("a.ts", 80), RBracket>>),
     Reply(<<LBracket, Entry("a.ts", 80), Entry("b.ts", 80), RBracket>>),
     Reply(<<LBracket, Entry("zz.ts", 80), Entry("a.ts", 79), RBracket>>),
     Reply(<<LBracket, JsonNull, RBracket>>)}
RunAnalysisReplies ==
    {Failed, Reply(<<Prose>>)}
        \cup {Reply(<<LBrace, Fields("ok", v), RBrace>>) : v \in Verdicts}

Next == Run(RunQaJsons, QualityDirs, RunGitStates, RunRankReplies, RunAnalysisReplies)

Spec == Init /\ [][Next]_vars

(***************************************************************************)
(* SpecOracle: the run under the defaults over working trees with one      *)
(* analysable file, against every oracle reply of a small token language.  *)
(***************************************************************************)
OracleGitStates ==
    GitStates({SrcQualityTs, QualityFooTs}, {2}, {1}, MaxTracked, MaxUntracked)

RankElements ==
    {Entry("a.ts", 79), Entry("a.ts", 80), Entry("b.ts", 80), Entry("zz.ts", 80),
     EntryNoScore("a.ts"), JsonNull}
RankReplies ==
    {Failed, Reply(<<Prose>>), Reply(<<LBracket, Prose, RBracket>>),
     Reply(<<RBracket, LBracket>>)}
        \cup {Reply(a) : a \in ArrayLiterals(RankElements, MaxReplyEntries)}
        \cup {Reply(<<Prose>> \o a \o <<Prose>>) : a \in ArrayLiterals(RankElements, 1)}
        \cup {Reply(<<LBracket>> \o a \o <<RBracket>>) : a \in ArrayLiterals(RankElements, 1)}
        \cup {Reply(a \o <<Prose, RBracket>>) : a \in ArrayLiterals(RankElements, 1)}

AnalysisReplies ==
    {Failed, Reply(<<Prose>>), Reply(<<LBrace, Prose, RBrace>>),
     Reply(<<LBrace, RBrace>>), Reply(<<RBrace, LBrace>>)}
        \cup {Reply(<<LBrace, Fields("ok", v), RBrace>>) : v \in Verdicts}
        \cup {Reply(<<Prose, LBrace, Fields("ok", v), RBrace, Prose>>) : v \in Verdicts}
        \cup {Reply(<<LBrace, Fields("ok", v), RBrace, Prose, RBrace>>) : v \in Verdicts}

NextOracle == Run({NoQaJson}, QualityDirs, OracleGitStates, RankReplies, AnalysisReplies)

SpecOracle == Init /\ [][NextOracle]_vars

(***************************************************************************)
(* SpecExtract: the run under qa.json overrides of every key, over working *)
(* trees that touch the ignored paths, against a few oracle replies.       *)
(***************************************************************************)
ExtractOverrides ==
    [contextLines      |-> {0},
     maxDiffLines      |-> {0 - 1, 2, 3},
     maxSnippetMatches |-> {1},
     maxDiffsPerRun    |-> {0 - 1, 0, 1},
     ignoreFiles       |-> {<<>>, <<SrcGlob>>}]
ExtractQaJsons == {NoQaJson} \cup UserConfigs(ExtractOverrides, MaxOverrideKeys)
ExtractGitStates ==
    GitStates({QaJson, QualityFooTs, QualityABTs, SrcQualityTs}, {2, 3}, {1},
              MaxTracked, MaxUntracked)
ExtractRankReplies ==
    {Failed, Reply(<<LBracket, Entry("a.ts", 80), Entry("b.ts", 80), RBracket>>),
     Reply(<<LBracket, Entry("zz.ts", 80), Entry("a.ts", 79), JsonNull, RBracket>>)}
ExtractAnalysisReplies ==
    {Failed, Reply(<<LBrace, Fields("ok", "rejected"), RBrace>>)}

NextExtract ==
    Run(ExtractQaJsons, QualityDirs, ExtractGitStates, ExtractRankReplies,
        ExtractAnalysisReplies)

SpecExtract == Init /\ [][NextExtract]_vars

(***************************************************************************)
(* Claims                                                                  *)
(***************************************************************************)
Last(s) == s[Len(s)]
InLoop == pc = "forMatch"
AfterRank == calls # <<>> /\ Last(calls).kind = "rank"
AfterAnalysis == InLoop /\ analyses # <<>>

\* the precedence of the verdicts of a sequence of analyses
Aggregate(as) ==
    IF \E i \in 1..Len(as) : as[i].status = "rejected" THEN "rejected"
    ELSE IF \E i \in 1..Len(as) : as[i].status = "warning" THEN "warning"
    ELSE "accepted"

\* C1: the running verdict of a diff is the precedence aggregate (rejected,
\* else warning, else accepted) of the verdicts the adjudicator returned for
\* its retained matches, the verdict pushed with the file's result is that
\* aggregate, and a running verdict of rejected stays rejected for the rest
\* of the diff.
C1_VerdictPrecedence ==
    [][/\ InLoop' => /\ overallStatus' = Aggregate(analyses')
                     /\ Len(matchResults') = Len(analyses')
       /\ Len(results') > Len(results) => Last(results').status = Aggregate(analyses)
       /\ (InLoop /\ InLoop' /\ overallStatus = "rejected") => overallStatus' = "rejected"
      ]_vars

\* C1 witness: a warning verdict arrived after a rejected one and the running
\* verdict is still rejected
C1_Witness ==
    /\ InLoop
    /\ Len(analyses) = 2
    /\ analyses[1].status = "rejected"
    /\ analyses[2].status = "warning"
    /\ overallStatus = "rejected"

AnalyzeCalls(d) == {i \in 1..Len(calls) : calls[i].kind = "analyze" /\ calls[i].di = d}

\* C2: the run sends at most maxDiffsPerRun * (1 + maxSnippetMatches) oracle
\* requests, and for each diff at most maxSnippetMatches adjudication
\* requests.
C2_CallBudget ==
    /\ Len(calls) <= config.maxDiffsPerRun * (1 + config.maxSnippetMatches)
    /\ \A d \in 1..Len(diffs) : Cardinality(AnalyzeCalls(d)) <= config.maxSnippetMatches

\* a reply that carries a JSON object somewhere in its content
HoldsObject(reply) ==
    /\ reply.ok
    /\ \E i \in 1..Len(reply.content) :
        /\ reply.content[i].t = "{"
        /\ \/ i + 1 <= Len(reply.content) /\ reply.content[i + 1].t = "}"
           \/ /\ i + 2 <= Len(reply.content)
              /\ reply.content[i + 1].t = "fields"
              /\ reply.content[i + 2].t = "}"

\* C3: a step that sends an adjudication request whose exchange fails or
\* whose reply holds no JSON object appends a warning analysis with a
\* diagnostic commentary, records it with the match's snippet as a match
\* result, and leaves the run in the loop at the next match, not aborted.
C3_AdjudicationFailsSafe ==
    [][(/\ Len(calls') > Len(calls)
        /\ Last(calls').kind = "analyze"
        /\ ~HoldsObject(lastReply')) =>
            /\ Len(analyses') = Len(analyses) + 1
            /\ Last(analyses').status = "warning"
            /\ Last(analyses').commentary \in {UnableToParse, ErrorDuring}
            /\ matchResults' = Append(matchResults,
                                      [snippetName |-> matches[mi].snippetName,
                                       commentary |-> Last(analyses').commentary])
            /\ overallStatus' \in {"warning", "rejected"}
            /\ pc' = "forMatch"
            /\ mi' = mi + 1
            /\ exitCode' = Running
      ]_vars

\* C3 witness: a failed exchange was recorded as a warning and another match
\* is waiting
C3_Witness ==
    /\ AfterAnalysis
    /\ Last(calls).kind = "analyze"
    /\ ~lastReply.ok
    /\ Last(analyses).status = "warning"
    /\ mi <= Len(matches)

\* the claim's glob semantics: "**" any run of characters, "*" any run of
\* non-separator characters, everything else (the dot too) literal, anchored
RECURSIVE GlobMatches(_, _)
GlobMatches(pat, path) ==
    IF pat = <<>> THEN path = <<>>
    ELSE IF Len(pat) >= 2 /\ pat[1] = "*" /\ pat[2] = "*"
         THEN \E k \in 0..Len(path) :
                GlobMatches(SubSeq(pat, 3, Len(pat)), SubSeq(path, k + 1, Len(path)))
    ELSE IF pat[1] = "*"
         THEN \E k \in 0..Len(path) :
                /\ \A i \in 1..k : path[i] # "/"
                /\ GlobMatches(Tail(pat), SubSeq(path, k + 1, Len(path)))
    ELSE path # <<>> /\ path[1] = pat[1] /\ GlobMatches(Tail(pat), Tail(path))

GlobIgnored(patterns, path) ==
    \E i \in 1..Len(patterns) : GlobMatches(patterns[i], path)
Extracted(path) == \E i \in 1..Len(extracted) : extracted[i].file = path

\* C4: a changed path, tracked or untracked, is left out of the extracted
\* diffs iff some ignore pattern matches the whole of it as a glob.
C4_IgnoreGlobs ==
    /\ \A i \in 1..Len(worktree.tracked) :
         ~Extracted(worktree.tracked[i].path)
            <=> GlobIgnored(config.ignoreFiles, worktree.tracked[i].path)
    /\ \A i \in 1..Len(worktree.untracked) :
         worktree.untracked[i].readable =>
            (~Extracted(worktree.untracked[i].path)
                <=> GlobIgnored(config.ignoreFiles, worktree.untracked[i].path))

\* the matches among the first n that resolve in the corpus with a score of
\* at least 80, in order
RECURSIVE Retained(_, _)
Retained(ms, n) ==
    IF n = 0 THEN <<>>
    ELSE Retained(ms, n - 1) \o
         (IF /\ ms[n].t = "entry"
             /\ \E i \in 1..Len(snippets) : snippets[i].name = ms[n].snippetName
             /\ ms[n].hasScore
             /\ ms[n].relevanceScore >= 80
          THEN <<ms[n].snippetName>> ELSE <<>>)

\* C5: in the loop over a diff's matches, the snippets adjudicated and
\* recorded so far are exactly the matches passed so far that resolve in the
\* corpus and score at least 80, in ranker order; and every returned match
\* is reached.
C5_ThresholdAndCorpus ==
    /\ InLoop => [i \in 1..Len(matchResults) |-> matchResults[i].snippetName]
                    = Retained(matches, mi - 1)
    /\ (pc = "done" /\ apiKey /\ matches # <<>>) => mi > Len(matches)

\* C6: an exited run with a rejected file result has a non-zero exit code,
\* and a run that printed its summary with every file result accepted or
\* warning has exit code zero.
C6_ExitCode ==
    pc = "done" =>
        /\ (\E i \in 1..Len(results) : results[i].status = "rejected") => exitCode # 0
        /\ (summary.printed
              /\ \A i \in 1..Len(results) : results[i].status \in {"accepted", "warning"})
            => exitCode = 0

\* C6 witness: a run of two files, the first accepted and the second
\* rejected, exited with code 1
C6_Witness ==
    /\ pc = "done"
    /\ Len(results) = 2
    /\ results[1].status = "accepted"
    /\ results[2].status = "rejected"
    /\ summary.printed
    /\ exitCode = 1

\* a reply whose content is one JSON array of {snippetName, relevanceScore}
\* entries, prose around it allowed
ShapedArray(reply) ==
    /\ reply.ok
    /\ \E i, j \in 1..Len(reply.content) :
        /\ i < j
        /\ reply.content[i].t = "["
        /\ reply.content[j].t = "]"
        /\ \A k \in 1..Len(reply.content) :
            IF k < i \/ k > j THEN reply.content[k].t = "text"
            ELSE IF k > i /\ k < j
                 THEN reply.content[k].t = "entry" /\ reply.content[k].hasScore
                 ELSE TRUE

\* C7: with a credential, a ranking reply that is no well-formed array of
\* {snippetName, relevanceScore} entries gives zero matches and the run does
\* not abort.
C7_RankingDegrades ==
    (AfterRank /\ ~ShapedArray(lastReply)) => (matches = <<>> /\ exitCode # 1)

\* the claim's truncation: the first k lines and the marker when the text is
\* longer than k lines
FirstLinesAndMarker(lines, k) ==
    IF Len(lines) > k THEN SubSeq(lines, 1, k) \o <<TruncationMarker>> ELSE lines

\* C8: every oracle request carries the diff's text cut to its first
\* maxDiffLines lines and the marker when it is longer, unchanged otherwise.
C8_Truncation ==
    \A i \in 1..Len(calls) :
        calls[i].diff = FirstLinesAndMarker(extracted[calls[i].di].diff, config.maxDiffLines)

Files(ds) == [i \in 1..Len(ds) |-> ds[i].file]

\* C9: a run that printed its summary has one file result for each of the
\* first min(n, maxDiffsPerRun) extracted diffs, in extraction order, and no
\* oracle request names another diff.
C9_DiffCap ==
    /\ summary.printed =>
         Files(results)
            = SubSeq(Files(extracted), 1, Min(Len(extracted), config.maxDiffsPerRun))
    /\ \A i \in 1..Len(calls) : calls[i].di <= config.maxDiffsPerRun

UnderQuality(path) == Len(path) > 8 /\ SubSeq(path, 1, 8) = SubSeq(QualityGlob, 1, 8)
HasPattern(patterns, p) == \E i \in 1..Len(patterns) : patterns[i] = p

\* C10: once the configuration is loaded the ignore patterns hold the base
\* ignores qa.json and quality/**, and no diff is extracted for qa.json or
\* for a file under quality/.
C10_BaseIgnores ==
    /\ pc # "loadConfig" =>
         HasPattern(config.ignoreFiles, QaJson) /\ HasPattern(config.ignoreFiles, QualityGlob)
    /\ \A i \in 1..Len(extracted) :
         extracted[i].file # QaJson /\ ~UnderQuality(extracted[i].file)

\* git status --porcelain printed nothing
EmptyStatus(git) == ~git.fails /\ git.tracked = <<>> /\ git.untracked = <<>>

\* C11: the corpus-load step that loads zero snippets ends the run at once
\* with exit code zero, no oracle request and no diff extraction; the
\* extraction step over an empty version-control status ends the run at once
\* with exit code zero, no oracle request and no file result; with or
\* without the credential.
C11_EmptyRuns ==
    [][/\ (pc = "loadSnippets" /\ snippets' = <<>>) =>
            /\ pc' = "done"
            /\ exitCode' = 0
            /\ calls' = <<>>
            /\ worktree' = NoTree /\ extracted' = <<>> /\ diffs' = <<>>
            /\ results' = <<>> /\ ~summary'.printed
       /\ (pc = "getGitDiffs" /\ EmptyStatus(worktree')) =>
            /\ snippets # <<>>
            /\ extracted' = <<>>
            /\ pc' = "done"
            /\ exitCode' = 0
            /\ calls' = <<>>
            /\ results' = <<>> /\ ~summary'.printed
      ]_vars

\* C11 witness: without a credential, a run over a corpus of snippets and an
\* empty status has exited with code zero and no request
C11_Witness ==
    /\ pc = "done"
    /\ ~apiKey
    /\ snippets # <<>>
    /\ EmptyStatus(worktree)
    /\ exitCode = 0
    /\ calls = <<>>

\* C12: without the credential no oracle request is ever sent; the first
\* loop iteration aborts the run with exit code 1 before any ranking, and a
\* run that had a diff to analyse has ended with exit code 1, no file result
\* and no summary.
C12_MissingCredential ==
    [][/\ ~apiKey' => (calls' = <<>> /\ analyses' = <<>> /\ matchResults' = <<>>)
       /\ (~apiKey /\ pc = "forDiff") =>
            /\ di = 1
            /\ pc' = "done"
            /\ exitCode' = 1
            /\ matches' = <<>>
       /\ (~apiKey' /\ pc' = "done" /\ DiffsToProcess' # <<>>) =>
            /\ exitCode' = 1
            /\ results' = <<>>
            /\ ~summary'.printed
      ]_vars

\* C12 witness: without a credential, a run with two diffs to analyse has
\* exited with code 1 and nothing sent or reported
C12_Witness ==
    /\ pc = "done"
    /\ ~apiKey
    /\ Len(DiffsToProcess) = 2
    /\ exitCode = 1
    /\ calls = <<>>
    /\ results = <<>>
    /\ ~summary.printed

RankCalls(d) == {i \in 1..Len(calls) : calls[i].kind = "rank" /\ calls[i].di = d}

\* the log of requests is ordered by diff, and a request is a ranking
\* request iff it is the first request of its diff
OrderedByDiff ==
    /\ calls # <<>> => calls[1].di = 1
    /\ \A i \in 1..(Len(calls) - 1) :
         calls[i + 1].di \in {calls[i].di, calls[i].di + 1}
    /\ \A i \in 1..Len(calls) :
         calls[i].kind = "rank" <=> (i = 1 \/ calls[i - 1].di < calls[i].di)

\* C13: requests are sent one at a time and the log of requests is ordered
\* by diff; every diff that was ranked or has a file result has exactly one
\* ranking request, which precedes its adjudication requests; a diff is
\* ranked only when all earlier diffs have their file result; and no match
\* is adjudicated twice (a failed request is not sent again).
C13_Sequential ==
    [][/\ OrderedByDiff'
       /\ \A d \in 1..Len(results') : Cardinality(RankCalls(d)') = 1
       /\ InLoop' => /\ Cardinality(RankCalls(di)') = 1
                     /\ Cardinality(AnalyzeCalls(di)') = Len(analyses')
                     /\ Len(analyses') <= mi' - 1
       /\ calls' # calls => \E c \in {Last(calls')} : calls' = Append(calls, c)
       /\ (calls' # calls /\ Last(calls').kind = "rank") =>
            /\ pc = "forDiff"
            /\ Len(results) = Last(calls').di - 1
            /\ \A d \in 1..Len(results) : results[d].file = calls[CHOOSE i \in RankCalls(d) : TRUE].file
       /\ (calls' # calls /\ Last(calls').kind = "analyze") =>
            /\ pc = "forMatch"
            /\ Len(results) = Last(calls').di - 1
            /\ Last(calls).di = Last(calls').di
      ]_vars

\* C13 witness: the second diff is being adjudicated after the first diff
\* was ranked, adjudicated and reported with a warning
C13_Witness ==
    /\ InLoop
    /\ Len(calls) = 4
    /\ calls[1].kind = "rank" /\ calls[1].di = 1
    /\ calls[2].kind = "analyze" /\ calls[2].di = 1
    /\ calls[3].kind = "rank" /\ calls[3].di = 2
    /\ calls[4].kind = "analyze" /\ calls[4].di = 2
    /\ analyses # <<>>
    /\ Len(results) = 1
    /\ results[1].status = "warning"

CountKeys == {"contextLines", "maxDiffLines", "maxSnippetMatches", "maxDiffsPerRun"}

\* C14: the configuration the pipeline consumes has positive counts
\* (contextLines, maxDiffLines, maxSnippetMatches, maxDiffsPerRun) and no
\* empty ignore pattern, whatever qa.json supplies.
C14_ConfigValid ==
    /\ \A k \in CountKeys : config[k] \in Nat /\ config[k] > 0
    /\ \A i \in 1..Len(config.ignoreFiles) : config.ignoreFiles[i] # <<>>

\* the spans of a reply's content that are well-formed array literals, as
\* <<first, last>> positions, and the first of them
ArrayLiteralSpans(content) ==
    {ij \in (1..Len(content)) \X (1..Len(content)) :
        ij[1] < ij[2] /\ IsJsonArray(SubSeq(content, ij[1], ij[2]))}
FirstArrayLiteral(content) ==
    LET first == SetMin({ij[1] : ij \in ArrayLiteralSpans(content)})
        last  == SetMin({ij[2] : ij \in {x \in ArrayLiteralSpans(content) : x[1] = first}})
    IN  <<first, last>>

\* C15: from a ranking reply that holds a well-formed array literal followed
\* by further text, the ranker returns the entries of the first well-formed
\* array literal.
C15_FirstArrayLiteral ==
    (/\ InLoop
     /\ AfterRank
     /\ lastReply.ok
     /\ ArrayLiteralSpans(lastReply.content) # {}
     /\ FirstArrayLiteral(lastReply.content)[2] < Len(lastReply.content)) =>
        matches = ArrayElements(SubSeq(lastReply.content,
                                       FirstArrayLiteral(lastReply.content)[1],
                                       FirstArrayLiteral(lastReply.content)[2]), 1)

\* a ranking reply from which no match is retained: the exchange failed, the
\* content holds no array literal, or it holds one array of entries each
\* naming no snippet of the corpus or scoring below 80
NoneRetained(reply) ==
    \/ ~reply.ok
    \/ ArrayLiteralSpans(reply.content) = {}
    \/ /\ ShapedArray(reply)
       /\ \A k \in 1..Len(reply.content) :
            reply.content[k].t = "entry" =>
                \/ Find(reply.content[k].snippetName) = 0
                \/ reply.content[k].relevanceScore < 80

\* C16: while the last request is the ranking request of a diff whose reply
\* retains no match, no adjudication request is sent and the run does not
\* abort, and the file result pushed for the diff is accepted with no
\* matches; a run that printed its summary having sent only ranking requests
\* reports every file accepted and exits with code zero.
C16_UnmatchedAccepted ==
    [][/\ (InLoop /\ AfterRank /\ NoneRetained(lastReply)) =>
            /\ calls' = calls
            /\ exitCode' = Running
            /\ matchResults' = <<>>
            /\ Len(results') > Len(results) =>
                 Last(results') = [file |-> extracted[di].file,
                                   status |-> "accepted",
                                   matches |-> <<>>]
       /\ (pc' = "done" /\ summary'.printed
            /\ \A i \in 1..Len(calls') : calls'[i].kind = "rank") =>
            /\ \A i \in 1..Len(results') :
                 results'[i].status = "accepted" /\ results'[i].matches = <<>>
            /\ summary'.accepted = Len(results')
            /\ exitCode' = 0
      ]_vars

\* C16 witness: both ranking requests of a run over two files failed, and
\* the run reported both files accepted with no matches and exited with
\* code zero
C16_Witness ==
    /\ pc = "done"
    /\ summary.printed
    /\ Len(calls) = 2
    /\ ~lastReply.ok
    /\ Len(results) = 2
    /\ \A i \in 1..2 : results[i].status = "accepted" /\ results[i].matches = <<>>
    /\ exitCode = 0

====
